---- MODULE Spec2Model ----
(***************************************************************************)
(* Model of libbitcoin's transaction helpers (src/transaction.cpp):        *)
(* build_merkle_tree, is_coinbase, total_output_value, is_final and        *)
(* select_outputs.                                                         *)
(*                                                                         *)
(* Fixed-width integers keep their real width.  A uint64_t is a sequence   *)
(* of four 16-bit limbs and a uint32_t a sequence of two, least            *)
(* significant limb first, so that 2^32 and 2^64 - 1 are representable     *)
(* and wrap-around and truncation happen exactly as in the build.          *)
(***************************************************************************)
EXTENDS Integers, Sequences, FiniteSets, TLC

\* ------------------------------------------------------------------ bounds

\* Longest input list of a transaction handed to is_final / is_coinbase.
MaxInputs == 2
\* Longest output list of a transaction handed to total_output_value.
MaxOutputs == 3
\* Longest hash list handed to build_merkle_tree.
MaxHashes == 5
\* Longest candidate list handed to select_outputs.
MaxCandidates == 3

\* ------------------------------------------------- fixed-width arithmetic

\* One limb holds 16 bits.
Base == 2^16

\* uint32_t / uint64_t / size_t of a small natural n < 2^31.
Nat32(n) == <<n % Base, (n \div Base) % Base>>
Nat64(n) == <<n % Base, (n \div Base) % Base, 0, 0>>

\* std::numeric_limits<uint32_t>::max() and std::numeric_limits<uint64_t>::max().
MAX32 == <<Base - 1, Base - 1>>
MAX64 == <<Base - 1, Base - 1, Base - 1, Base - 1>>

\* Carry out of limb i of a + b (a and b of equal width).
RECURSIVE Carry(_, _, _)
Carry(a, b, i) ==
    IF i = 0 THEN 0 ELSE (a[i] + b[i] + Carry(a, b, i - 1)) \div Base

\* Borrow out of limb i of a - b (a and b of equal width).
RECURSIVE Borrow(_, _, _)
Borrow(a, b, i) ==
    IF i = 0 THEN 0
    ELSE IF a[i] - b[i] - Borrow(a, b, i - 1) < 0 THEN 1 ELSE 0

\* Unsigned a + b at the operands' width: the carry out of the top limb is
\* dropped (C++ unsigned arithmetic is modulo 2^w).
AddWrap(a, b) ==
    [i \in 1..Len(a) |-> (a[i] + b[i] + Carry(a, b, i - 1)) % Base]

\* Unsigned a - b at the operands' width, modulo 2^w.
SubWrap(a, b) ==
    [i \in 1..Len(a) |-> (a[i] - b[i] - Borrow(a, b, i - 1)) % Base]

\* Unsigned a < b at the operands' width.
Less(a, b) == Borrow(a, b, Len(a)) = 1

\* Conversion of a 64-bit size_t to uint32_t: the low 32 bits.
Trunc32(a) == SubSeq(a, 1, 2)

\* Integral promotion of a uint32_t to 64 bits.
Ext64(a) == a \o <<0, 0>>

\* --------------------------------------------------------------- digests

\* A hash_digest is a sequence of symbols standing for its 32 bytes.
\* null_hash is the all-zero digest.
null_hash == <<"00">>

\* The leaf digests callers pass in.
LeafDigests == {null_hash, <<"a">>, <<"b">>}

\* generate_sha256_hash: an opaque, collision-free function of the bytes
\* it is given, modelled as a free term over its input.
generate_sha256_hash(data) == <<"sha256(">> \o data \o <<")">>

\* ------------------------------------------------------------ data model

output_point(h, idx) == [hash |-> h, index |-> idx]

transaction_input_type(prev, seqno) ==
    [previous_output |-> prev, sequence |-> seqno]

transaction_output_type(v) == [value |-> v]

transaction_type(ins, outs, lock) ==
    [version |-> Nat32(1), inputs |-> ins, outputs |-> outs, locktime |-> lock]

output_info_type(p, v) == [point |-> p, value |-> v]

\* select_outputs_result(): value-initialised, no points and change 0.
select_outputs_result == [points |-> <<>>, change |-> Nat64(0)]

\* All sequences over S of length at most n.
SeqUpTo(S, n) == UNION {[1..k -> S] : k \in 0..n}

\* ------------------------------------------------------ build_merkle_tree

\* Line 44-45: an odd level gets its last digest pushed back once more.
PushBackIfOddNoDup(m) == m
PushBackIfOdd(m) == IF Len(m) % 2 # 0 THEN Append(m, m[Len(m)]) ELSE m

\* Lines 50-57: write_hash(*it), write_hash(*(it + 1)), then hash the 64 bytes.
HashPairSwapped(left, right) == generate_sha256_hash(right \o left)
HashPair(left, right) == generate_sha256_hash(left \o right)

\* Lines 47-59: new_merkle, one digest per adjacent pair, left to right.
NewMerkle(m) == [k \in 1..(Len(m) \div 2) |-> HashPair(m[2 * k - 1], m[2 * k])]

\* ------------------------------------------------------------ is_coinbase

previous_output_is_nullIndexOnly(previous_output) ==
    previous_output.index = MAX32
previous_output_is_null(previous_output) ==
    /\ previous_output.index = MAX32
    /\ previous_output.hash = null_hash

is_coinbase(t) ==
    /\ Len(t.inputs) = 1
    /\ previous_output_is_null(t.inputs[1].previous_output)

\* ----------------------------------------------------- total_output_value

\* Lines 121-124: total += output.value over the outputs, in uint64_t.
RECURSIVE TotalFrom(_, _, _)
TotalFrom(outs, i, total) ==
    IF i > Len(outs) THEN total
    ELSE TotalFrom(outs, i + 1, AddWrap(total, outs[i].value))

total_output_value(t) == TotalFrom(t.outputs, 1, Nat64(0))

\* --------------------------------------------------------------- is_final

\* The height/time discriminator of constants.hpp.
locktime_threshold == Nat32(500000000)

is_final_input(tx_input) == tx_input.sequence = MAX32

\* block_height is a size_t (64 bits); max_locktime is a uint32_t, so the
\* assignment on line 148 keeps the low 32 bits of block_height.
is_final(t, height, time) ==
    IF t.locktime = Nat32(0) THEN TRUE
    ELSE LET max_locktime ==
                 IF Less(t.locktime, locktime_threshold)
                 THEN Trunc32(height) ELSE time
         IN  IF Less(t.locktime, max_locktime) THEN TRUE
             ELSE \A i \in 1..Len(t.inputs) : is_final_input(t.inputs[i])

\* --------------------------------------------------------- select_outputs

\* The rearrangements of u by a permutation of its positions.
PositionPermutations(n) ==
    {f \in [1..n -> 1..n] : \A i, j \in 1..n : i # j => f[i] # f[j]}
Rearrangements(u) ==
    {[i \in 1..Len(u) |-> u[f[i]]] : f \in PositionPermutations(Len(u))}

\* Line 172: the partition predicate.
IsLesser(out_info, min) == Less(out_info.value, min)

\* Lines 169-173: std::partition is not stable; it may leave any
\* rearrangement in which every lesser element precedes every other one.
PartitionResults(u, min) ==
    {v \in Rearrangements(u) :
        \A i, j \in 1..Len(v) :
            (i < j /\ IsLesser(v[j], min)) => IsLesser(v[i], min)}

\* The partition point: the number of lesser elements.
LesserCount(u, min) == Cardinality({i \in 1..Len(u) : IsLesser(u[i], min)})

\* Lines 176-180: std::min_element over positions lo..hi, the first position
\* holding a smallest value; hi + 1 (the end) when the range is empty.
MinElementFirstInRange(u, lo, hi) == lo
MinElement(u, lo, hi) ==
    IF lo > hi THEN hi + 1
    ELSE CHOOSE i \in lo..hi :
            /\ \A j \in lo..hi : ~Less(u[j].value, u[i].value)
            /\ \A j \in lo..(i - 1) : Less(u[i].value, u[j].value)

\* Lines 191-195: std::sort of positions 1..k by value, biggest first; the
\* order of equal values is unspecified.
SortResults(u, k) ==
    {v \in Rearrangements(u) :
        /\ \A i \in (k + 1)..Len(u) : v[i] = u[i]
        /\ \A i \in 1..(k - 1) : ~Less(v[i].value, v[i + 1].value)}

\* ------------------------------------------------------------------ state

VARIABLES
    pc,           \* "idle", "merkle_loop", "select_partition",
                  \* "select_accumulate" or "done"
    op,           \* the function called: its name, "none" before the call
    tx,           \* the transaction argument of the transaction queries
    block_height, \* is_final's size_t block_height
    block_time,   \* is_final's uint32_t block_time
    merkle_arg,   \* the caller's hash list as it was when the call was made
    merkle,       \* the caller's hash list, which build_merkle_tree takes by
                  \* non-const reference
    candidates,   \* the caller's output_info_list
    min_value,    \* select_outputs' min_value
    unspent,      \* select_outputs' by-value copy of the candidates
    it,           \* the accumulation loop's position in unspent
    accum,        \* the accumulation loop's running sum
    result,       \* select_outputs' local result
    ret           \* the value returned

vars == <<pc, op, tx, block_height, block_time, merkle_arg, merkle,
          candidates, min_value, unspent, it, accum, result, ret>>

tx_vars == <<tx, block_height, block_time>>
merkle_vars == <<merkle_arg, merkle>>
select_vars == <<candidates, min_value, unspent, it, accum, result>>

\* ----------------------------------------------------------------- inputs

\* Values of 32-bit index fields.
IndexValues == {Nat32(0), MAX32}

\* Values of 32-bit sequence fields.
SequenceValues == {Nat32(0), SubWrap(MAX32, Nat32(1)), MAX32}

\* Locktimes: zero, block heights, and timestamps on both sides of the
\* threshold.
LocktimeValues ==
    {Nat32(0), Nat32(10), SubWrap(locktime_threshold, Nat32(1)),
     locktime_threshold, AddWrap(locktime_threshold, Nat32(1)), MAX32}

\* Reference heights (64-bit), some of them at or above 2^32.
HeightValues ==
    {Nat64(0), Nat64(10), Nat64(11), Nat64(500000000),
     <<5, 0, 1, 0>>, <<11, 0, 1, 0>>, MAX64}

\* Reference times (32-bit).
TimeValues ==
    {Nat32(0), locktime_threshold, AddWrap(locktime_threshold, Nat32(2)), MAX32}

\* Output values (64-bit), small ones and ones near the top of the range.
OutputValues ==
    {Nat64(0), Nat64(1), Nat64(50), <<0, 0, 0, 2^15>>,
     SubWrap(MAX64, Nat64(1)), MAX64}

\* Candidate values and targets of select_outputs.
CandidateValues ==
    {Nat64(3), Nat64(30), Nat64(40), Nat64(90), Nat64(150),
     SubWrap(MAX64, Nat64(1))}
TargetValues == {Nat64(0), Nat64(100), MAX64}

InputsUpTo(n) ==
    SeqUpTo({transaction_input_type(output_point(h, idx), seqno) :
                h \in {null_hash, <<"a">>}, idx \in IndexValues,
                seqno \in {MAX32}}, n)

SequencesUpTo(n) ==
    SeqUpTo({transaction_input_type(output_point(<<"a">>, Nat32(0)), seqno) :
                seqno \in SequenceValues}, n)

OutputsUpTo(n) ==
    SeqUpTo({transaction_output_type(v) : v \in OutputValues}, n)

\* The i-th candidate spends output i - 1 of transaction "a".
CandidatesUpTo(n) ==
    {[i \in 1..Len(vs) |->
        output_info_type(output_point(<<"a">>, Nat32(i - 1)), vs[i])] :
            vs \in SeqUpTo(CandidateValues, n)}

\* ------------------------------------------------------------------- Init

no_tx == transaction_type(<<>>, <<>>, Nat32(0))

Init ==
    /\ pc = "idle"
    /\ op = "none"
    /\ tx = no_tx
    /\ block_height = Nat64(0)
    /\ block_time = Nat32(0)
    /\ merkle_arg = <<>>
    /\ merkle = <<>>
    /\ candidates = <<>>
    /\ min_value = Nat64(0)
    /\ unspent = <<>>
    /\ it = 1
    /\ accum = Nat64(0)
    /\ result = select_outputs_result
    /\ ret = FALSE

\* ---------------------------------------------------------------- actions

\* is_coinbase(tx), lines 113-117.
CallIsCoinbase ==
    /\ pc = "idle"
    /\ \E ins \in InputsUpTo(MaxInputs) :
          /\ tx' = transaction_type(ins, <<>>, Nat32(0))
          /\ ret' = is_coinbase(tx')
    /\ op' = "is_coinbase"
    /\ pc' = "done"
    /\ UNCHANGED <<block_height, block_time, merkle_vars, select_vars>>

\* total_output_value(tx), lines 119-125.
CallTotalOutputValue ==
    /\ pc = "idle"
    /\ \E outs \in OutputsUpTo(MaxOutputs) :
          /\ tx' = transaction_type(<<>>, outs, Nat32(0))
          /\ ret' = total_output_value(tx')
    /\ op' = "total_output_value"
    /\ pc' = "done"
    /\ UNCHANGED <<block_height, block_time, merkle_vars, select_vars>>

\* is_final(tx, block_height, block_time), lines 141-155.
CallIsFinal ==
    /\ pc = "idle"
    /\ \E ins \in SequencesUpTo(MaxInputs), lock \in LocktimeValues,
          h \in HeightValues, t \in TimeValues :
          /\ tx' = transaction_type(ins, <<>>, lock)
          /\ block_height' = h
          /\ block_time' = t
          /\ ret' = is_final(tx', h, t)
    /\ op' = "is_final"
    /\ pc' = "done"
    /\ UNCHANGED <<merkle_vars, select_vars>>

\* build_merkle_tree(merkle), lines 35-41: the early returns, else the loop.
CallBuildMerkleTree ==
    /\ pc = "idle"
    /\ \E hashes \in SeqUpTo(LeafDigests, MaxHashes) :
          /\ merkle_arg' = hashes
          /\ merkle' = hashes
          /\ IF hashes = <<>>
             THEN pc' = "done" /\ ret' = null_hash
             ELSE IF Len(hashes) = 1
                  THEN pc' = "done" /\ ret' = hashes[1]
                  ELSE pc' = "merkle_loop" /\ ret' = ret
    /\ op' = "build_merkle_tree"
    /\ UNCHANGED <<tx_vars, select_vars>>

\* One pass of the while loop, lines 42-61.
MerkleIteration ==
    /\ pc = "merkle_loop"
    /\ Len(merkle) > 1
    /\ merkle' = NewMerkle(PushBackIfOdd(merkle))
    /\ UNCHANGED <<pc, op, tx_vars, merkle_arg, select_vars, ret>>

\* Line 62: return merkle[0].
MerkleReturn ==
    /\ pc = "merkle_loop"
    /\ Len(merkle) <= 1
    /\ ret' = merkle[1]
    /\ pc' = "done"
    /\ UNCHANGED <<op, tx_vars, merkle_vars, select_vars>>

\* select_outputs(unspent, min_value, greedy), lines 157-167.  The only
\* select_outputs_algorithm is greedy, so the assertion on line 164 holds.
CallSelectOutputs ==
    /\ pc = "idle"
    /\ \E cs \in CandidatesUpTo(MaxCandidates), target \in TargetValues :
          /\ candidates' = cs
          /\ unspent' = cs
          /\ min_value' = target
          /\ IF cs = <<>>
             THEN pc' = "done" /\ ret' = select_outputs_result
             ELSE pc' = "select_partition" /\ ret' = ret
    /\ op' = "select_outputs"
    /\ UNCHANGED <<tx_vars, merkle_vars, it, accum, result>>

\* Lines 168-187: partition, min_element, and a greater-or-equal candidate
\* is found: it is returned alone.
SelectSingle ==
    /\ pc = "select_partition"
    /\ \E u \in PartitionResults(unspent, min_value) :
          LET lesser_end == LesserCount(u, min_value)
              min_greater == MinElement(u, lesser_end + 1, Len(u))
          IN  /\ min_greater # Len(u) + 1
              /\ unspent' = u
              /\ result' = [points |-> <<u[min_greater].point>>,
                            change |-> SubWrap(u[min_greater].value, min_value)]
              /\ ret' = result'
    /\ pc' = "done"
    /\ UNCHANGED <<op, tx_vars, merkle_vars, candidates, min_value, it, accum>>

\* Lines 168-196: partition, min_element finds nothing, the lessers are
\* sorted biggest first and the accumulation starts.
SelectSort ==
    /\ pc = "select_partition"
    /\ \E u \in PartitionResults(unspent, min_value) :
          LET lesser_end == LesserCount(u, min_value)
              min_greater == MinElement(u, lesser_end + 1, Len(u))
          IN  /\ min_greater = Len(u) + 1
              /\ unspent' \in SortResults(u, lesser_end)
    /\ accum' = Nat64(0)
    /\ it' = 1
    /\ result' = [points |-> <<>>, change |-> result.change]
    /\ pc' = "select_accumulate"
    /\ UNCHANGED <<op, tx_vars, merkle_vars, candidates, min_value, ret>>

\* One pass of the for loop, lines 197-206.
SelectAccumulate ==
    /\ pc = "select_accumulate"
    /\ it <= LesserCount(unspent, min_value)
    /\ accum' = AddWrap(accum, unspent[it].value)
    /\ IF ~Less(accum', min_value)
       THEN /\ result' = [points |-> Append(result.points, unspent[it].point),
                          change |-> SubWrap(accum', min_value)]
            /\ ret' = result'
            /\ pc' = "done"
            /\ it' = it
       ELSE /\ result' = [points |-> Append(result.points, unspent[it].point),
                          change |-> result.change]
            /\ it' = it + 1
            /\ UNCHANGED <<pc, ret>>
    /\ UNCHANGED <<op, tx_vars, merkle_vars, candidates, min_value, unspent>>

\* Line 207: the lessers are exhausted below min_value.
SelectExhausted ==
    /\ pc = "select_accumulate"
    /\ it > LesserCount(unspent, min_value)
    /\ ret' = select_outputs_result
    /\ pc' = "done"
    /\ UNCHANGED <<op, tx_vars, merkle_vars, select_vars>>

Next ==
    \/ CallIsCoinbase
    \/ CallTotalOutputValue
    \/ CallIsFinal
    \/ CallBuildMerkleTree
    \/ MerkleIteration
    \/ MerkleReturn
    \/ CallSelectOutputs
    \/ SelectSingle
    \/ SelectSort
    \/ SelectAccumulate
    \/ SelectExhausted

Spec == Init /\ [][Next]_vars

\* ------------------------------------------------- exact (unwrapped) sums

\* A 64-bit value with a fifth limb on top: sums of fewer than 2^16 64-bit
\* values are exact at this width.
Wide(a) == a \o <<0>>

\* The mathematical sum of the 64-bit values vs[i], i in the set S.
RECURSIVE MathSumOver(_, _)
MathSumOver(vs, S) ==
    IF S = {} THEN Wide(Nat64(0))
    ELSE LET i == CHOOSE k \in S : TRUE
         IN  AddWrap(Wide(vs[i]), MathSumOver(vs, S \ {i}))

MathSum(vs) == MathSumOver(vs, DOMAIN vs)

\* A wide value above 2^64 - 1.
Exceeds64(w) == w[5] > 0

Returned(f) == pc = "done" /\ op = f

OutputValuesOf(t) == [i \in 1..Len(t.outputs) |-> t.outputs[i].value]
CandidateValuesOf(cs) == [i \in 1..Len(cs) |-> cs[i].value]

\* The candidates whose value is at least the target.
Covering == {i \in 1..Len(candidates) : ~Less(candidates[i].value, min_value)}

\* ----------------------------------------------------------------- claims

\* C1: total_output_value never returns a wrapped sum: it returns only when
\* the outputs' values add up to at most 2^64 - 1 (otherwise the call fails
\* with ArithmeticOverflow instead of returning), and what it returns is
\* the exact mathematical sum.
C1_TotalNeverWraps ==
    Returned("total_output_value") =>
        /\ ~Exceeds64(MathSum(OutputValuesOf(tx)))
        /\ Wide(ret) = MathSum(OutputValuesOf(tx))

\* C2: is_final follows the two-tier rule for every locktime, every 64-bit
\* reference height and every 32-bit reference time: true when locktime is
\* 0; else true when locktime is strictly below the reference value (the
\* height when locktime < 500,000,000, the time when not), whatever the
\* sequences; else true iff every input's sequence is 2^32 - 1.
C2_IsFinalTwoTier ==
    Returned("is_final") =>
        LET reference == IF Less(tx.locktime, Nat32(500000000))
                         THEN block_height ELSE Ext64(block_time)
        IN  ret = \/ tx.locktime = Nat32(0)
                  \/ Less(Ext64(tx.locktime), reference)
                  \/ \A i \in 1..Len(tx.inputs) : tx.inputs[i].sequence = MAX32

\* C3: select_outputs returns the empty-points sentinel exactly when the
\* candidate list is empty or the exact sum of all candidate values is
\* below the target, also when the running sum passes 2^64 - 1.
C3_FailureIffInsufficient ==
    Returned("select_outputs") =>
        (ret.points = <<>>) <=>
            \/ candidates = <<>>
            \/ Less(MathSum(CandidateValuesOf(candidates)), Wide(min_value))

\* C4: when some candidate has value >= target, select_outputs returns
\* exactly one point, that of a candidate whose value is the least among
\* the candidates with value >= target, and change is that value minus the
\* target.
C4_SingleSmallestCovering ==
    (Returned("select_outputs") /\ Covering # {}) =>
        /\ Len(ret.points) = 1
        /\ \E i \in Covering :
              /\ ret.points[1] = candidates[i].point
              /\ \A j \in Covering :
                    ~Less(candidates[j].value, candidates[i].value)
              /\ AddWrap(Wide(ret.change), Wide(min_value))
                    = Wide(candidates[i].value)

\* C4's case: two covering candidates of different value and one below the
\* target, and the call has returned.
C4_Witness ==
    /\ Returned("select_outputs")
    /\ \E i, j \in Covering : Less(candidates[i].value, candidates[j].value)
    /\ \E k \in 1..Len(candidates) : k \notin Covering
    /\ Len(ret.points) = 1

\* The positions of the candidates the returned points name, in order.
SelectedPositions ==
    [k \in 1..Len(ret.points) |->
        CHOOSE i \in 1..Len(candidates) : candidates[i].point = ret.points[k]]

\* C5: when no candidate has value >= target and the selection succeeds,
\* the points are the shortest prefix of the candidates in descending order
\* of value whose exact sum is at least the target, and change is that
\* exact sum minus the target.
C5_ShortestDescendingPrefix ==
    (Returned("select_outputs") /\ Covering = {} /\ ret.points # <<>>) =>
        LET n == Len(ret.points)
            pos == SelectedPositions
            chosen == [k \in 1..n |-> candidates[pos[k]].value]
            rest == (1..Len(candidates)) \ {pos[k] : k \in 1..n}
        IN  /\ \A k \in 1..n : ret.points[k] = candidates[pos[k]].point
            /\ \A k, l \in 1..n : k # l => pos[k] # pos[l]
            /\ \A k \in 1..(n - 1) : ~Less(chosen[k], chosen[k + 1])
            /\ \A r \in rest : ~Less(chosen[n], candidates[r].value)
            /\ ~Less(MathSum(chosen), Wide(min_value))
            /\ Less(MathSum(SubSeq(chosen, 1, n - 1)), Wide(min_value))
            /\ AddWrap(Wide(ret.change), Wide(min_value)) = MathSum(chosen)

\* C6: build_merkle_tree returns the all-zero digest for an empty list, the
\* sole element unchanged for a one-element list, and hash(h1 || h2) for a
\* two-element list [h1, h2].
C6_MerkleSmallLists ==
    Returned("build_merkle_tree") =>
        /\ Len(merkle_arg) = 0 => ret = <<"00">>
        /\ Len(merkle_arg) = 1 => ret = merkle_arg[1]
        /\ Len(merkle_arg) = 2 =>
              ret = <<"sha256(">> \o merkle_arg[1] \o merkle_arg[2] \o <<")">>

\* C6's case: a two-element list of different digests has been hashed.
C6_Witness ==
    /\ Returned("build_merkle_tree")
    /\ Len(merkle_arg) = 2
    /\ merkle_arg[1] # merkle_arg[2]

\* The root the duplication rule defines: at each level an odd count is
\* made even by repeating the last digest, then neighbours are hashed in
\* pairs, left to right.
RECURSIVE RootByDuplication(_)
RootByDuplication(level) ==
    IF Len(level) = 1 THEN level[1]
    ELSE LET even == IF Len(level) % 2 = 1
                     THEN level \o <<level[Len(level)]>> ELSE level
         IN  RootByDuplication(
                [k \in 1..(Len(even) \div 2) |->
                    <<"sha256(">> \o even[2 * k - 1] \o even[2 * k] \o <<")">>])

\* C7: every level of odd count has its last digest duplicated before the
\* left-to-right pairing, so the root of an odd-length list of three or
\* more digests is the root of that list with its last digest appended once
\* more.
C7_OddLevelDuplicatesLast ==
    (Returned("build_merkle_tree") /\ Len(merkle_arg) >= 2) =>
        /\ ret = RootByDuplication(merkle_arg)
        /\ (Len(merkle_arg) % 2 = 1) =>
              ret = RootByDuplication(
                        merkle_arg \o <<merkle_arg[Len(merkle_arg)]>>)

\* C7's case: a three-element list whose last digest differs from the one
\* before it has been reduced to its root.
C7_Witness ==
    /\ Returned("build_merkle_tree")
    /\ Len(merkle_arg) = 3
    /\ merkle_arg[3] # merkle_arg[2]

\* C8: is_coinbase is true iff the transaction has exactly one input and
\* that input's previous output has index 2^32 - 1 and the all-zero hash.
C8_CoinbaseIffSingleNullInput ==
    Returned("is_coinbase") =>
        ret = /\ Len(tx.inputs) = 1
              /\ tx.inputs[1].previous_output.index = <<65535, 65535>>
              /\ tx.inputs[1].previous_output.hash = <<"00">>

\* C8's case: is_coinbase has refused a single input whose previous output
\* has the maximum index but a non-zero hash.
C8_Witness ==
    /\ Returned("is_coinbase")
    /\ Len(tx.inputs) = 1
    /\ tx.inputs[1].previous_output.index = MAX32
    /\ tx.inputs[1].previous_output.hash # null_hash
    /\ ret = FALSE

\* C9: build_merkle_tree only reads its input: when it returns, the
\* caller's hash list holds the digests it held when the call was made.
C9_MerkleLeavesInputAlone ==
    Returned("build_merkle_tree") => merkle = merkle_arg

\* C10: the selection minimises the input count: when select_outputs
\* succeeds, no set of fewer candidates than the returned points has values
\* whose exact sum is at least the target.
C10_FewestInputs ==
    (Returned("select_outputs") /\ ret.points # <<>>) =>
        \A S \in SUBSET (1..Len(candidates)) :
            Cardinality(S) < Len(ret.points) =>
                Less(MathSumOver(CandidateValuesOf(candidates), S),
                     Wide(min_value))

====
